---- MODULE Spec2Model ----
(***************************************************************************)
(* State-machine model of src/core/util/next-tick.ts: the nextTick         *)
(* scheduler (callbacks queue, pending flag, flushCallbacks, timerFunc)    *)
(* together with the host event loop that invokes what timerFunc hands to  *)
(* it.  JavaScript is single threaded, so nextTick and the snapshot step   *)
(* of flushCallbacks are atomic; a flush is a sequence of steps, one per   *)
(* task, and a callback that is being executed may call nextTick again.    *)
(***************************************************************************)
EXTENDS Integers, Sequences, FiniteSets, TLC

\* ------------------------------------------------------------------ bounds
\* Total number of nextTick calls made in one run.
MaxCalls == 3

\* ------------------------------------------------------------- value sets
Undefined == "undefined"
\* Values a caller may pass as ctx (omitted ctx is undefined).
CtxValues == {Undefined, "vm"}
\* Values a caller may pass as cb: a function, or nothing.
CbValues == {TRUE, FALSE}
\* Values a callback may throw.
Errors == {"err"}

\* Host capabilities probed by the module (next-tick.ts 66, 85-89, 110, 81).
\*   Promise, setImmediate : "undefined" | "polyfill" | "native"
\*   MutationObserver      : the same, or "phantom" (not native, but its
\*                           toString() is '[object MutationObserverConstructor]')
AllHosts ==
  [ Promise          : {"undefined", "polyfill", "native"},
    MutationObserver : {"undefined", "polyfill", "native", "phantom"},
    setImmediate     : {"undefined", "polyfill", "native"},
    isIE             : BOOLEAN,
    isIOS            : BOOLEAN ]

Host(p, mo, si, ie, ios) ==
  [Promise |-> p, MutationObserver |-> mo, setImmediate |-> si, isIE |-> ie, isIOS |-> ios]

\* The hosts the scheduler is run on: every strategy, with and without a
\* Promise global, and the Promise strategy on and off iOS.
Hosts ==
  { Host("native",    "native",    "undefined", FALSE, FALSE),  \* evergreen browser
    Host("native",    "native",    "undefined", FALSE, TRUE),   \* iOS WebView
    Host("undefined", "native",    "undefined", FALSE, FALSE),  \* Android 4.4
    Host("polyfill",  "phantom",   "undefined", FALSE, FALSE),  \* PhantomJS + Promise polyfill
    Host("undefined", "native",    "native",    TRUE,  FALSE),  \* IE 11
    Host("polyfill",  "native",    "native",    TRUE,  FALSE),  \* IE 11 + Promise polyfill
    Host("undefined", "undefined", "undefined", FALSE, FALSE),  \* bare host
    Host("polyfill",  "polyfill",  "polyfill",  FALSE, FALSE) } \* everything shimmed

VARIABLES
  host,              \* the host's capabilities, as they are now
  loadHost,          \* history: the host's capabilities when the module was loaded
  timerFunc,         \* the strategy bound to timerFunc at module load
  isUsingMicroTask,  \* exported flag
  counter,           \* MutationObserver strategy: let counter
  textData,          \* MutationObserver strategy: textNode.data
  callbacks,         \* the live queue (task ids, a task is the closure of its call)
  pending,           \* the pending flag
  copies,            \* flushCallbacks: const copies
  i,                 \* flushCallbacks: loop index (1-based)
  phase,             \* what is on the call stack: "idle" | "turn" | "flush" | "task"
  calls,             \* history: one record per nextTick call (cb, ctx, ...)
  resolveOf,         \* per call: whether its _resolve has been set
  futures,           \* per call: the future returned, if any
  executed,          \* history: task invocations, in order
  reports,           \* history: handleError invocations, in order
  scheduled,         \* flushCallbacks invocations handed to Promise.then/setImmediate/setTimeout
  moRecords,         \* mutation records queued for the observer
  noops,             \* setTimeout(noop) timers outstanding
  threw,             \* history: the tasks whose callback threw
  turnNo,            \* history: index of the current synchronous turn (a turn of
                     \* user code that calls nextTick, or a flush)
  flushNo            \* history: number of flushCallbacks invocations begun

hostVars  == <<host, loadHost, timerFunc, isUsingMicroTask>>
moVars    == <<counter, textData>>
queueVars == <<callbacks, pending>>
flushVars == <<copies, i>>
callVars  == <<calls, resolveOf, futures>>
logVars   == <<executed, reports, threw>>
loopVars  == <<scheduled, moRecords, noops>>
vars == <<host, loadHost, timerFunc, isUsingMicroTask, counter, textData, callbacks,
          pending, copies, i, phase, calls, resolveOf, futures, executed,
          reports, threw, scheduled, moRecords, noops, turnNo, flushNo>>

\* ------------------------------------------------------ capability prober
\* isNative(Ctor): the constructor is a function whose source is native code.
isNative(c) == c = "native"

\* Mutant: MutationObserver is used on IE too.
Probe_noIECheck(h) ==
  IF h.Promise # "undefined" /\ isNative(h.Promise)
    THEN [timerFunc |-> "promise", isUsingMicroTask |-> TRUE]
  ELSE IF /\ h.MutationObserver # "undefined"
          /\ (isNative(h.MutationObserver) \/ h.MutationObserver = "phantom")
    THEN [timerFunc |-> "mo", isUsingMicroTask |-> TRUE]
  ELSE IF h.setImmediate # "undefined" /\ isNative(h.setImmediate)
    THEN [timerFunc |-> "setImmediate", isUsingMicroTask |-> FALSE]
  ELSE [timerFunc |-> "setTimeout", isUsingMicroTask |-> FALSE]

\* Mutant: the MutationObserver branch does not publish the flag.
Probe_flagNotSet(h) ==
  IF h.Promise # "undefined" /\ isNative(h.Promise)
    THEN [timerFunc |-> "promise", isUsingMicroTask |-> TRUE]
  ELSE IF /\ ~h.isIE
          /\ h.MutationObserver # "undefined"
          /\ (isNative(h.MutationObserver) \/ h.MutationObserver = "phantom")
    THEN [timerFunc |-> "mo", isUsingMicroTask |-> FALSE]
  ELSE IF h.setImmediate # "undefined" /\ isNative(h.setImmediate)
    THEN [timerFunc |-> "setImmediate", isUsingMicroTask |-> FALSE]
  ELSE [timerFunc |-> "setTimeout", isUsingMicroTask |-> FALSE]

\* The if / else-if chain of lines 66-130: the arrow function bound to
\* timerFunc, and isUsingMicroTask, which is false (line 14) unless the
\* branch taken assigns it.
Probe(h) ==
  IF h.Promise # "undefined" /\ isNative(h.Promise)
    THEN [timerFunc |-> "promise", isUsingMicroTask |-> TRUE]
  ELSE IF /\ ~h.isIE
          /\ h.MutationObserver # "undefined"
          /\ (isNative(h.MutationObserver) \/ h.MutationObserver = "phantom")
    THEN [timerFunc |-> "mo", isUsingMicroTask |-> TRUE]
  ELSE IF h.setImmediate # "undefined" /\ isNative(h.setImmediate)
    THEN [timerFunc |-> "setImmediate", isUsingMicroTask |-> FALSE]
  ELSE [timerFunc |-> "setTimeout", isUsingMicroTask |-> FALSE]

SelectTimerFunc(h) == Probe(h).timerFunc

SelectIsUsingMicroTask(h) == Probe(h).isUsingMicroTask

\* String(counter), for the values counter takes.
DigitStrings == <<"0", "1", "2", "3", "4", "5", "6", "7", "8", "9">>
String(n) == DigitStrings[n + 1]

\* ------------------------------------------------------------- host loop
\* Number of flushCallbacks invocations the host owes: one per operation
\* handed to Promise.then / setImmediate / setTimeout, and one observer
\* notification for all the mutation records queued.
Outstanding == scheduled + (IF moRecords > 0 THEN 1 ELSE 0)

\* Promise.then and MutationObserver callbacks are microtasks: they run as
\* soon as the current turn ends, before any other host callback.
MicrotaskDue == timerFunc \in {"promise", "mo"} /\ Outstanding > 0

\* The state after the module has been loaded on a host of H.
InitOn(H) ==
  /\ host \in H
  /\ loadHost = host
  /\ timerFunc = SelectTimerFunc(host)
  /\ isUsingMicroTask = SelectIsUsingMicroTask(host)
  /\ counter = 1
  /\ textData = String(1)
  /\ callbacks = <<>>
  /\ pending = FALSE
  /\ copies = <<>>
  /\ i = 1
  /\ phase = "idle"
  /\ calls = <<>>
  /\ resolveOf = <<>>
  /\ futures = <<>>
  /\ executed = <<>>
  /\ reports = <<>>
  /\ threw = {}
  /\ scheduled = 0
  /\ moRecords = 0
  /\ noops = 0
  /\ turnNo = 1
  /\ flushNo = 0

Init == InitOn(Hosts)

\* --------------------------------------------------------------- timerFunc
\* Mutant: the counter is incremented modulo 1.
NextCounter_stuck(c) == (c + 1) % 1

\* counter = (counter + 1) % 2
NextCounter(c) == (c + 1) % 2

\* Mutant: the empty timer is set on every host.
TimerFuncCall_alwaysNoop ==
  CASE timerFunc = "promise" ->
         /\ scheduled' = scheduled + 1
         /\ noops' = noops + 1
         /\ UNCHANGED <<moRecords, counter, textData>>
    [] timerFunc = "mo" ->
         /\ counter' = NextCounter(counter)
         /\ textData' = String(counter')
         /\ moRecords' = moRecords + 1
         /\ noops' = noops + 1
         /\ UNCHANGED scheduled
    [] timerFunc \in {"setImmediate", "setTimeout"} ->
         /\ scheduled' = scheduled + 1
         /\ noops' = noops + 1
         /\ UNCHANGED <<moRecords, counter, textData>>

\* The body of the arrow function bound to timerFunc (lines 68-82, 105-108,
\* 119-121, 127-129).
TimerFuncCall ==
  CASE timerFunc = "promise" ->
         /\ scheduled' = scheduled + 1
         /\ noops' = IF host.isIOS THEN noops + 1 ELSE noops
         /\ UNCHANGED <<moRecords, counter, textData>>
    [] timerFunc = "mo" ->
         /\ counter' = NextCounter(counter)
         /\ textData' = String(counter')
         /\ moRecords' = moRecords + 1
         /\ UNCHANGED <<scheduled, noops>>
    [] timerFunc \in {"setImmediate", "setTimeout"} ->
         /\ scheduled' = scheduled + 1
         /\ UNCHANGED <<moRecords, noops, counter, textData>>

\* ---------------------------------------------------------------- nextTick
\* An entry of the executed log: task id ran in flush flushNo, turn turnNo.
Ran(id, this, kind) ==
  [id |-> id, flush |-> flushNo, turn |-> turnNo, this |-> this, kind |-> kind]

\* Mutant: unshift instead of push.
Enqueue_unshift(id, cb, ctx) ==
  /\ callbacks' = <<id>> \o callbacks
  /\ UNCHANGED <<copies, executed>>

\* Mutant: the flush iterates the list nextTick pushes to (no snapshot).
Enqueue_live(id, cb, ctx) ==
  /\ callbacks' = Append(callbacks, id)
  /\ copies' = IF phase = "task" THEN Append(copies, id) ELSE copies
  /\ UNCHANGED executed

\* Mutant: a callback is called at once instead of being queued.
Enqueue_sync(id, cb, ctx) ==
  /\ IF cb
       THEN executed' = Append(executed, Ran(id, ctx, "cb")) /\ UNCHANGED callbacks
       ELSE callbacks' = Append(callbacks, id) /\ UNCHANGED executed
  /\ UNCHANGED copies

\* callbacks.push(() => {...}): the closure over cb, ctx and _resolve is
\* appended to the live queue; nothing is run, the snapshot is not touched.
Enqueue(id, cb, ctx) ==
  /\ callbacks' = Append(callbacks, id)
  /\ UNCHANGED <<copies, executed>>

\* Mutant: the trigger is invoked on every call.
NeedsTrigger_always == TRUE

\* if (!pending)
NeedsTrigger == ~pending

\* Mutant: the flag is not raised.
PendingAfterTrigger_forgotten == FALSE

\* pending = true
PendingAfterTrigger == TRUE

\* Mutant: a future is returned only where Promise is native.
ReturnsPromise_nativeOnly(cb) == ~cb /\ isNative(host.Promise)

\* if (!cb && typeof Promise !== 'undefined') return new Promise(...)
ReturnsPromise(cb) == ~cb /\ host.Promise # "undefined"

\* Mutant: the strategy is probed again on every call.
Rebind_perCall ==
  /\ timerFunc' = SelectTimerFunc(host)
  /\ isUsingMicroTask' = SelectIsUsingMicroTask(host)

\* let timerFunc and isUsingMicroTask are assigned while the module loads
\* and nowhere else: a call uses the binding and leaves it as it is.
Rebind == UNCHANGED <<timerFunc, isUsingMicroTask>>

\* nextTick(cb, ctx), called by user code of a turn or by a callback that a
\* flush is executing.
nextTick(cb, ctx) ==
  /\ phase \in {"turn", "task"}
  /\ Len(calls) < MaxCalls
  /\ LET id  == Len(calls) + 1
         ret == IF ReturnsPromise(cb) THEN "promise" ELSE Undefined
     IN /\ Enqueue(id, cb, ctx)
        /\ IF NeedsTrigger
             THEN pending' = PendingAfterTrigger /\ TimerFuncCall
             ELSE UNCHANGED <<pending, scheduled, moRecords, noops, counter, textData>>
        \* the executor of new Promise runs synchronously: _resolve = resolve
        /\ resolveOf' = Append(resolveOf, ret = "promise")
        /\ futures' = Append(futures,
                             [st  |-> IF ret = "promise" THEN "pending" ELSE "none",
                              val |-> Undefined])
        /\ calls' = Append(calls, [cb |-> cb, ctx |-> ctx, ret |-> ret,
                                   from |-> phase, turn |-> turnNo,
                                   flush |-> flushNo, trig |-> NeedsTrigger])
  /\ Rebind
  /\ UNCHANGED <<host, loadHost, i, phase, reports, threw, turnNo, flushNo>>

NextTickCall == \E cb \in CbValues, ctx \in CtxValues : nextTick(cb, ctx)

\* ---------------------------------------------------------- flushCallbacks
\* Mutant: the flag is not reset by the flush.
PendingAfterSnapshot_stale == TRUE

\* pending = false
PendingAfterSnapshot == FALSE

\* callbacks.slice(0)
Slice(q, from) == SubSeq(q, from + 1, Len(q))

\* Mutant: the live queue is not cleared.
SetLength_ignored(q, n) == q

\* callbacks.length = n
SetLength(q, n) == SubSeq(q, 1, n)

\* Mutant: the trigger runs flushCallbacks itself, while nextTick is still
\* on the stack.
FlushMayStart_sync == phase \in {"idle", "callFromTurn", "callFromTask"}

\* Every strategy hands flushCallbacks to an asynchronous primitive of the
\* host (p.then, the observer, setImmediate, setTimeout), which invokes it
\* from the event loop, with nothing on the stack.
FlushMayStart == phase = "idle"

\* The host invokes flushCallbacks: lines 22-24.
flushCallbacks ==
  /\ FlushMayStart
  /\ Outstanding > 0
  /\ IF moRecords > 0
       THEN moRecords' = 0 /\ UNCHANGED scheduled
       ELSE scheduled' = scheduled - 1 /\ UNCHANGED moRecords
  /\ pending' = PendingAfterSnapshot
  /\ copies' = Slice(callbacks, 0)
  /\ callbacks' = SetLength(callbacks, 0)
  /\ i' = 1
  /\ phase' = "flush"
  /\ flushNo' = flushNo + 1
  /\ UNCHANGED <<hostVars, moVars, callVars, logVars, noops, turnNo>>

\* Mutant: the resolver is used without the check.
HasResolver_unchecked(t) == TRUE

\* else if (_resolve)
HasResolver(t) == resolveOf[t]

\* Mutant: the future is resolved without its value.
ResolutionValue_none(ctx) == Undefined

\* _resolve(ctx)
ResolutionValue(ctx) == ctx

\* One iteration of the loop, copies[i](): the task body of lines 140-150 up
\* to the point where cb has been called.
RunTask ==
  /\ phase = "flush"
  /\ i <= Len(copies)
  /\ LET t == copies[i]
         c == calls[t]
     IN IF c.cb
          THEN /\ executed' = Append(executed, Ran(t, c.ctx, "cb"))
               /\ phase' = "task"
               /\ UNCHANGED <<i, futures>>
          ELSE IF HasResolver(t)
            THEN /\ futures' = [futures EXCEPT
                                  ![t] = [st |-> "resolved", val |-> ResolutionValue(c.ctx)]]
                 /\ executed' = Append(executed, Ran(t, Undefined, "resolve"))
                 /\ i' = i + 1
                 /\ UNCHANGED phase
            ELSE /\ executed' = Append(executed, Ran(t, Undefined, "nothing"))
                 /\ i' = i + 1
                 /\ UNCHANGED <<phase, futures>>
  /\ UNCHANGED <<hostVars, moVars, queueVars, copies, calls, resolveOf, reports,
                 threw, loopVars, turnNo, flushNo>>

\* cb.call(ctx) returns normally.
CbReturn ==
  /\ phase = "task"
  /\ phase' = "flush"
  /\ i' = i + 1
  /\ UNCHANGED <<hostVars, moVars, queueVars, copies, callVars, logVars,
                 loopVars, turnNo, flushNo>>

\* Mutant: no try/catch, the error leaves flushCallbacks.
Catch_missing(e, t) ==
  /\ UNCHANGED <<reports, i>>
  /\ phase' = "idle"
  /\ turnNo' = turnNo + 1

\* catch (e) { handleError(e, ctx, 'nextTick') }: the error is reported and
\* the loop goes on with the next task.
Catch(e, t) ==
  /\ reports' = Append(reports, [err |-> e, vm |-> calls[t].ctx,
                                 info |-> "nextTick", task |-> t])
  /\ phase' = "flush"
  /\ i' = i + 1
  /\ UNCHANGED turnNo

\* cb.call(ctx) throws e.
CbThrow(e) ==
  /\ phase = "task"
  /\ threw' = threw \cup {copies[i]}
  /\ Catch(e, copies[i])
  /\ UNCHANGED <<hostVars, moVars, queueVars, copies, callVars, executed,
                 loopVars, flushNo>>

CbThrows == \E e \in Errors : CbThrow(e)

\* The loop condition i < copies.length fails: flushCallbacks returns, and
\* the turn of the flush ends.
FlushReturn ==
  /\ phase = "flush"
  /\ i > Len(copies)
  /\ phase' = "idle"
  /\ turnNo' = turnNo + 1
  /\ UNCHANGED <<hostVars, moVars, queueVars, flushVars, callVars, logVars,
                 loopVars, flushNo>>

\* ------------------------------------------------------------ environment
\* The host starts a turn of user code (an event handler, a timer, ...).
BeginTurn ==
  /\ phase = "idle"
  /\ ~MicrotaskDue
  /\ Len(calls) < MaxCalls
  /\ phase' = "turn"
  /\ UNCHANGED <<hostVars, moVars, queueVars, flushVars, callVars, logVars,
                 loopVars, turnNo, flushNo>>

\* The turn of user code ends.  Turns that made no nextTick call are not
\* counted.
EndTurn ==
  /\ phase = "turn"
  /\ phase' = "idle"
  /\ turnNo' = IF calls # <<>> /\ calls[Len(calls)].turn = turnNo
                 THEN turnNo + 1 ELSE turnNo
  /\ UNCHANGED <<hostVars, moVars, queueVars, flushVars, callVars, logVars,
                 loopVars, flushNo>>

\* The empty timer of line 81 fires: noop().
NoopTimer ==
  /\ phase = "idle"
  /\ ~MicrotaskDue
  /\ noops > 0
  /\ noops' = noops - 1
  /\ UNCHANGED <<hostVars, moVars, queueVars, flushVars, phase, callVars,
                 logVars, scheduled, moRecords, turnNo, flushNo>>

Next ==
  \/ BeginTurn
  \/ NextTickCall
  \/ EndTurn
  \/ flushCallbacks
  \/ RunTask
  \/ CbReturn
  \/ CbThrows
  \/ FlushReturn
  \/ NoopTimer

Spec == Init /\ [][Next]_vars

\* The host eventually invokes every operation handed to its asynchronous
\* primitive, and user code and callbacks terminate.
FairSpec ==
  /\ Spec
  /\ SF_vars(flushCallbacks)
  /\ WF_vars(RunTask)
  /\ WF_vars(CbReturn \/ CbThrows)
  /\ WF_vars(FlushReturn)
  /\ WF_vars(EndTurn)

\* ------------------------------------------------- every host, changing
\* Number of nextTick calls made in a run on a host whose globals change.
ProbeCalls == 1

\* User code replaces a global the module probed by a shim, or deletes it,
\* after the module has been loaded.  isIE and isIOS are constants of env.
HostChange ==
  /\ phase \in {"turn", "task"}
  /\ \E g \in {"Promise", "MutationObserver", "setImmediate"},
        v \in {"undefined", "polyfill"} :
       /\ host[g] # v
       /\ host' = [host EXCEPT ![g] = v]
  /\ UNCHANGED <<loadHost, timerFunc, isUsingMicroTask, moVars, queueVars,
                 flushVars, phase, callVars, logVars, loopVars, turnNo, flushNo>>

ProbeNext ==
  \/ HostChange
  \/ (BeginTurn /\ Len(calls) < ProbeCalls)
  \/ (NextTickCall /\ Len(calls) < ProbeCalls)
  \/ EndTurn
  \/ flushCallbacks
  \/ RunTask
  \/ CbReturn
  \/ CbThrows
  \/ FlushReturn
  \/ NoopTimer

\* The module loaded on any host, whose globals may change afterwards.
ProbeSpec == InitOn(AllHosts) /\ [][ProbeNext]_vars

\* ------------------------------------------- nextTick, statement by statement
\* nextTick up to and including the if (!pending) block: let _resolve is
\* declared and still undefined, the closure is pushed, the trigger invoked.
nextTickPush(cb, ctx) ==
  /\ phase \in {"turn", "task"}
  /\ Len(calls) < MaxCalls
  /\ LET id == Len(calls) + 1
     IN /\ Enqueue(id, cb, ctx)
        /\ IF NeedsTrigger
             THEN pending' = PendingAfterTrigger /\ TimerFuncCall
             ELSE UNCHANGED <<pending, scheduled, moRecords, noops, counter, textData>>
        /\ resolveOf' = Append(resolveOf, FALSE)
        /\ futures' = Append(futures, [st |-> "none", val |-> Undefined])
        /\ calls' = Append(calls, [cb |-> cb, ctx |-> ctx, ret |-> Undefined,
                                   from |-> phase, turn |-> turnNo,
                                   flush |-> flushNo, trig |-> NeedsTrigger])
  /\ phase' = IF phase = "turn" THEN "callFromTurn" ELSE "callFromTask"
  /\ Rebind
  /\ UNCHANGED <<host, loadHost, i, reports, threw, turnNo, flushNo>>

NextTickPushCall == \E cb \in CbValues, ctx \in CtxValues : nextTickPush(cb, ctx)

\* The rest of nextTick, lines 156-160: the future is created, its executor
\* stores the resolver, and the call returns.
nextTickReturn ==
  /\ phase \in {"callFromTurn", "callFromTask"}
  /\ LET id == Len(calls)
     IN IF ReturnsPromise(calls[id].cb)
          THEN /\ resolveOf' = [resolveOf EXCEPT ![id] = TRUE]
               /\ futures' = [futures EXCEPT ![id].st = "pending"]
               /\ calls' = [calls EXCEPT ![id].ret = "promise"]
          ELSE UNCHANGED callVars
  /\ phase' = IF phase = "callFromTurn" THEN "turn" ELSE "task"
  /\ UNCHANGED <<hostVars, moVars, queueVars, flushVars, logVars, loopVars,
                 turnNo, flushNo>>

SplitNext ==
  \/ BeginTurn
  \/ NextTickPushCall
  \/ nextTickReturn
  \/ EndTurn
  \/ flushCallbacks
  \/ RunTask
  \/ CbReturn
  \/ CbThrows
  \/ FlushReturn
  \/ NoopTimer

\* The hosts that define Promise.
PromiseHosts == {h \in Hosts : h.Promise # "undefined"}

\* nextTick taken statement by statement, on a fair host.
FairSplitSpec ==
  /\ InitOn(PromiseHosts)
  /\ [][SplitNext]_vars
  /\ SF_vars(flushCallbacks)
  /\ WF_vars(nextTickReturn)
  /\ WF_vars(RunTask)
  /\ WF_vars(CbReturn \/ CbThrows)
  /\ WF_vars(FlushReturn)
  /\ WF_vars(EndTurn)

\* ------------------------------------------------------------ vocabulary
Ids == 1..Len(calls)
IsExecuted(id) == \E k \in DOMAIN executed : executed[k].id = id
ExecPos(id) == CHOOSE k \in DOMAIN executed : executed[k].id = id
ExecIds == [k \in DOMAIN executed |-> executed[k].id]
\* The tasks of the snapshot that the running flush has not started yet.
Remaining == SubSeq(copies, IF phase = "task" THEN i + 1 ELSE i, Len(copies))
InFlush == phase \in {"flush", "task"}

\* ------------------------------------------------------------------ C1
\* C1: nextTick calls made in one synchronous turn are executed by one and
\* the same flushCallbacks invocation, in the order of the calls, and that
\* flush belongs to a later turn than the calls: whenever the later of two
\* such tasks has been executed, the earlier one was executed before it in
\* the same flush, and while only the earlier one has been executed the
\* later one is still ahead in the snapshot of the flush that is running.
C1_SameTurnOneFlushInOrder ==
  /\ \A a, b \in Ids :
       (a < b /\ calls[a].turn = calls[b].turn) =>
         /\ IsExecuted(b) =>
              /\ IsExecuted(a)
              /\ executed[ExecPos(a)].flush = executed[ExecPos(b)].flush
              /\ ExecPos(a) < ExecPos(b)
         /\ (IsExecuted(a) /\ ~IsExecuted(b)) =>
              /\ InFlush
              /\ executed[ExecPos(a)].flush = flushNo
              /\ \E k \in DOMAIN Remaining : Remaining[k] = b
  /\ \A k \in DOMAIN executed : executed[k].turn > calls[executed[k].id].turn

\* Two calls of one turn have both been executed, and so has a call of
\* another turn.
C1_Witness ==
  \E a, b, c \in Ids :
    /\ a < b /\ calls[a].turn = calls[b].turn /\ calls[c].turn # calls[a].turn
    /\ IsExecuted(a) /\ IsExecuted(b) /\ IsExecuted(c)

\* ------------------------------------------------------------------ C2
\* C2: what a flush executes is the snapshot taken when it started: the
\* tasks executed so far by the running flush are the leading tasks of
\* copies, every task of copies was enqueued before this flush started, so
\* a task enqueued while the flush runs is in the live queue and not in the
\* snapshot, and every task is executed by a flush later than the one that
\* was running (or had last run) when it was enqueued.
ExecutedBy(f) == SelectSeq(executed, LAMBDA e : e.flush = f)

C2_FlushRunsItsSnapshotOnly ==
  /\ InFlush =>
       /\ Len(ExecutedBy(flushNo)) = (IF phase = "task" THEN i ELSE i - 1)
       /\ \A k \in DOMAIN ExecutedBy(flushNo) : ExecutedBy(flushNo)[k].id = copies[k]
       /\ \A k \in DOMAIN copies : calls[copies[k]].flush < flushNo
       /\ \A id \in Ids :
            calls[id].flush = flushNo => \E k \in DOMAIN callbacks : callbacks[k] = id
  /\ \A k \in DOMAIN executed : calls[executed[k].id].flush < executed[k].flush

\* A task enqueued by a callback of flush 1 has been executed by flush 2.
C2_Witness ==
  \E k \in DOMAIN executed :
    /\ calls[executed[k].id].from = "task"
    /\ calls[executed[k].id].flush = 1
    /\ executed[k].flush = 2

\* ------------------------------------------------------------------ C3
\* C3: a callback that throws is reported exactly once, by handleError(e,
\* ctx, 'nextTick') with the ctx of its call, a callback that does not throw
\* is not reported, and the flush still runs the rest of its snapshot: the
\* loop index moves past the failed task, and flushCallbacks only returns
\* when every task of the snapshot has been executed.
ReportsOf(t) == {k \in DOMAIN reports : reports[k].task = t}

C3_ThrowIsolatedReportedOnce ==
  /\ \A t \in Ids : Cardinality(ReportsOf(t)) = (IF t \in threw THEN 1 ELSE 0)
  /\ \A k \in DOMAIN reports :
       /\ reports[k].info = "nextTick"
       /\ reports[k].vm = calls[reports[k].task].ctx
       /\ reports[k].err \in Errors
       /\ calls[reports[k].task].cb
  /\ ~InFlush => \A k \in DOMAIN copies : IsExecuted(copies[k])
  /\ phase = "flush" => Len(ExecutedBy(flushNo)) = i - 1

\* The first task of a snapshot threw, a later task of the same snapshot was
\* executed after it, and the flush has returned.
C3_Witness ==
  /\ phase = "idle"
  /\ Len(copies) >= 2
  /\ copies[1] \in threw
  /\ IsExecuted(copies[2])
  /\ Len(reports) = 1

\* ------------------------------------------------------------------ C4
\* C4: among the nextTick calls made between one snapshot and the next
\* (starting from the empty queue with pending false), the first one, and
\* only the first one, invokes timerFunc, whatever the mode of the calls.
Batch(f) == {id \in Ids : calls[id].flush = f}
Min(S) == CHOOSE x \in S : \A y \in S : x <= y

C4_OneTriggerPerBatch ==
  \A f \in 0..flushNo :
    Batch(f) # {} =>
      {id \in Batch(f) : calls[id].trig} = {Min(Batch(f))}

\* A batch of three calls, in both modes, is waiting for its flush.
C4_Witness ==
  /\ Len(callbacks) >= 3
  /\ \E a, b \in Batch(flushNo) : calls[a].cb /\ ~calls[b].cb

\* ------------------------------------------------------------------ C5
\* C5: at most one flushCallbacks invocation is scheduled and not yet
\* started, and at most one timerFunc invocation is unanswered.
C5_AtMostOneFlushOutstanding ==
  /\ Outstanding <= 1
  /\ scheduled + moRecords <= 1

\* A flush is running, one of its callbacks has called nextTick, and the
\* flush this scheduled is outstanding.
C5_Witness ==
  /\ phase = "task"
  /\ Outstanding = 1
  /\ \E id \in Ids : calls[id].from = "task" /\ calls[id].flush = flushNo

\* ------------------------------------------------------------------ C6
\* C6: the tasks executed so far, followed by the rest of the running
\* flush's snapshot and by the live queue, are the tasks 1..n in the order
\* of their nextTick calls: no task is executed twice, none disappears
\* without having been executed, none overtakes another; and once the
\* scheduler is quiescent every task has been executed exactly once.
C6_ExactlyOnceInOrder ==
  /\ ExecIds \o Remaining \o callbacks = [k \in Ids |-> k]
  /\ (phase = "idle" /\ Outstanding = 0) => ExecIds = [k \in Ids |-> k]

\* All the calls of the run have been executed, over two flushes.
C6_Witness ==
  /\ Len(calls) = MaxCalls
  /\ Len(executed) = MaxCalls
  /\ phase = "idle"
  /\ flushNo >= 2

\* ------------------------------------------------------------------ C7
\* C7: under a fair host, every task enqueued by nextTick is eventually
\* executed, and a non-empty live queue always has a flush scheduled.
C7_EveryTaskEventuallyRuns ==
  /\ [](callbacks # <<>> => Outstanding > 0)
  /\ \A id \in 1..MaxCalls : [](Len(calls) >= id => <>IsExecuted(id))

\* A task enqueued by a callback during a flush has been executed, on a host
\* whose flushes are timers.
C7_Witness ==
  /\ timerFunc \in {"setImmediate", "setTimeout"}
  /\ \E id \in Ids : calls[id].from = "task" /\ IsExecuted(id)
  /\ Len(executed) = Len(calls)

\* ------------------------------------------------------------------ C8
\* C8: a nextTick call without callback on a host that defines Promise
\* returns a future; the future is resolved exactly when its task has been
\* executed by a flush, its value is the ctx of the call, and by then every
\* task enqueued ahead of it in its batch has been executed.
C8_FutureResolvedByItsFlush ==
  \A id \in Ids :
    /\ (~calls[id].cb /\ host.Promise # "undefined") =>
         /\ calls[id].ret = "promise"
         /\ futures[id].st \in {"pending", "resolved"}
         /\ futures[id].st = "resolved" <=> IsExecuted(id)
    /\ futures[id].st = "resolved" =>
         /\ futures[id].val = calls[id].ctx
         /\ executed[ExecPos(id)].flush >= 1
         /\ \A b \in Batch(calls[id].flush) :
              b < id => IsExecuted(b) /\ ExecPos(b) < ExecPos(id)
    /\ futures[id].st = "pending" => futures[id].val = Undefined

\* Behind a callback of its batch, a future has been resolved with a ctx,
\* and another one with undefined.
C8_Witness ==
  \E a, b, c \in Ids :
    /\ calls[a].cb /\ a < b /\ calls[a].flush = calls[b].flush
    /\ futures[b].st = "resolved" /\ futures[b].val = "vm"
    /\ futures[c].st = "resolved" /\ futures[c].val = Undefined

\* ------------------------------------------------------------------ C9
\* A step that is a nextTick call without callback on a host without
\* Promise.
NoPromiseNoCbCall ==
  /\ Len(calls') = Len(calls) + 1
  /\ ~calls'[Len(calls')].cb
  /\ host.Promise = "undefined"

\* C9 as stated: such a call appends no task, does not set pending and does
\* not invoke the flush trigger.
C9_AsStated ==
  [][NoPromiseNoCbCall =>
       UNCHANGED <<callbacks, pending, scheduled, moRecords>>]_vars

\* C9, amended: such a call returns nothing and creates no future, but it
\* appends a task to the live queue and, when pending is false, sets pending
\* and invokes the flush trigger once; the task does nothing when the flush
\* executes it.
C9_NoPromiseCallEnqueuesEmptyTask ==
  /\ [][NoPromiseNoCbCall =>
          LET id == Len(calls')
          IN /\ calls'[id].ret = Undefined
             /\ futures'[id].st = "none"
             /\ callbacks' = Append(callbacks, id)
             /\ pending'
             /\ scheduled' + moRecords' =
                  scheduled + moRecords + (IF pending THEN 0 ELSE 1)]_vars
  /\ [][(/\ phase = "flush"
         /\ Len(executed') = Len(executed) + 1
         /\ ~calls[copies[i]].cb
         /\ calls[copies[i]].ret = Undefined) =>
          /\ executed' = Append(executed, Ran(copies[i], Undefined, "nothing"))
          /\ UNCHANGED <<futures, reports, callbacks, pending, phase>>]_vars

\* On a host without Promise, a call without callback has been made and its
\* task has been executed.
C9_Witness ==
  /\ host.Promise = "undefined"
  /\ \E k \in DOMAIN executed :
       ~calls[executed[k].id].cb /\ executed[k].kind = "nothing"

\* ----------------------------------------------------------------- C10
\* C10: a nextTick call runs no task and reports no error, and returns to
\* its caller; an error of a callback is reported only while a flush is
\* executing that callback, by one handleError(e, ctx, 'nextTick').
C10_NothingSynchronous ==
  /\ [][Len(calls') > Len(calls) =>
          UNCHANGED <<executed, reports, threw, phase>>]_vars
  /\ [][(reports' # reports \/ threw' # threw) =>
          /\ phase = "task"
          /\ Len(calls') = Len(calls)
          /\ \E e \in Errors :
               reports' = Append(reports, [err |-> e, vm |-> calls[copies[i]].ctx,
                                           info |-> "nextTick", task |-> copies[i]])]_vars
  /\ [][executed' # executed => phase = "flush"]_vars

\* A callback passed to nextTick in a turn of user code has thrown in a
\* later turn, and the error has been reported.
C10_Witness ==
  \E k \in DOMAIN reports :
    /\ calls[reports[k].task].from = "turn"
    /\ executed[ExecPos(reports[k].task)].turn > calls[reports[k].task].turn

\* ----------------------------------------------------------------- C11
\* C11: on every host the strategy selected at load is the first available
\* of Promise (defined and native), MutationObserver (not IE, defined, native
\* or '[object MutationObserverConstructor]'), setImmediate (defined and
\* native), setTimeout; it is exactly one of the four, and the flushes it
\* requests go through the primitive of that strategy.
C11_FirstAvailableStrategy ==
  LET h == loadHost
      P == h.Promise = "native"
      M == ~h.isIE /\ h.MutationObserver \in {"native", "phantom"}
      S == h.setImmediate = "native"
  IN /\ timerFunc \in {"promise", "mo", "setImmediate", "setTimeout"}
     /\ timerFunc = "promise" <=> P
     /\ timerFunc = "mo" <=> ~P /\ M
     /\ timerFunc = "setImmediate" <=> ~P /\ ~M /\ S
     /\ timerFunc = "setTimeout" <=> ~P /\ ~M /\ ~S
     /\ timerFunc = "mo" => scheduled = 0
     /\ timerFunc # "mo" => moRecords = 0 /\ counter = 1

\* On IE with a Promise polyfill, a native MutationObserver and a native
\* setImmediate, setImmediate has been selected and has been handed a flush.
C11_Witness ==
  /\ loadHost.isIE
  /\ loadHost.Promise = "polyfill"
  /\ loadHost.MutationObserver = "native"
  /\ timerFunc = "setImmediate"
  /\ scheduled = 1

\* ----------------------------------------------------------------- C12
\* C12: isUsingMicroTask is true exactly when the selected strategy is
\* Promise or MutationObserver, false exactly when it is setImmediate or
\* setTimeout.
C12_MicroTaskFlagMatchesStrategy ==
  /\ isUsingMicroTask \in BOOLEAN
  /\ isUsingMicroTask <=> timerFunc \in {"promise", "mo"}
  /\ ~isUsingMicroTask <=> timerFunc \in {"setImmediate", "setTimeout"}

\* The MutationObserver strategy has run a flush with the flag published.
C12_Witness ==
  /\ timerFunc = "mo"
  /\ isUsingMicroTask
  /\ flushNo = 1
  /\ phase = "idle"

\* ----------------------------------------------------------------- C13
\* C13: no step changes the selected strategy or isUsingMicroTask: not a
\* nextTick call, a flush or a task, and not a change of the host's globals
\* after the module was loaded.
C13_SelectionNeverChanges ==
  [][timerFunc' = timerFunc /\ isUsingMicroTask' = isUsingMicroTask]_vars

\* The globals have changed so that probing again would select another
\* strategy, and a task has been scheduled and executed.
C13_Witness ==
  /\ host # loadHost
  /\ SelectTimerFunc(host) # timerFunc
  /\ Len(executed) >= 1

\* ----------------------------------------------------------------- C14
\* C14: a flush resets pending before it runs a task, so of the nextTick
\* calls made by callbacks during one flush the first invokes timerFunc and
\* the others do not, and their tasks are all executed by the next flush, in
\* the order of the calls.
C14_ReentrantCallsStartOneNewCycle ==
  /\ \A id \in Ids :
       calls[id].from = "task" =>
         /\ calls[id].trig <=>
              ~\E b \in Ids : b < id /\ calls[b].flush = calls[id].flush
         /\ IsExecuted(id) =>
              /\ executed[ExecPos(id)].flush = calls[id].flush + 1
              /\ \A b \in Ids :
                   (b < id /\ calls[b].from = "task"
                           /\ calls[b].flush = calls[id].flush) =>
                     IsExecuted(b) /\ ExecPos(b) < ExecPos(id)
  /\ (InFlush /\ \A id \in Ids : calls[id].flush # flushNo) => ~pending

\* Two calls made by callbacks of flush 1 have been executed by flush 2.
C14_Witness ==
  \E a, b \in Ids :
    /\ a < b
    /\ calls[a].from = "task" /\ calls[b].from = "task"
    /\ calls[a].flush = 1 /\ calls[b].flush = 1
    /\ IsExecuted(a) /\ IsExecuted(b)
    /\ executed[ExecPos(b)].flush = 2

\* ----------------------------------------------------------------- C15
\* C15: a nextTick call made in a later turn than an earlier call, with no
\* flush started in between, joins the batch of the earlier call: it does
\* not invoke timerFunc and its task is executed by the same flush, after
\* the earlier task; and every task is executed by the first flush that
\* starts after its call.
C15_LaterTurnsJoinPendingBatch ==
  /\ \A a, b \in Ids :
       (a < b /\ calls[a].turn # calls[b].turn /\ calls[a].flush = calls[b].flush) =>
         /\ ~calls[b].trig
         /\ IsExecuted(b) =>
              /\ IsExecuted(a)
              /\ executed[ExecPos(a)].flush = executed[ExecPos(b)].flush
              /\ ExecPos(a) < ExecPos(b)
  /\ \A k \in DOMAIN executed : executed[k].flush = calls[executed[k].id].flush + 1

\* With setTimeout, two calls of different turns of user code have been
\* executed by one flush.
C15_Witness ==
  /\ timerFunc = "setTimeout"
  /\ \E a, b \in Ids :
       /\ a < b
       /\ calls[a].from = "turn" /\ calls[b].from = "turn"
       /\ calls[a].turn # calls[b].turn
       /\ IsExecuted(a) /\ IsExecuted(b)
       /\ executed[ExecPos(a)].flush = executed[ExecPos(b)].flush

\* ----------------------------------------------------------------- C16
\* A step that is a nextTick call which invokes timerFunc.
TriggerStep ==
  /\ Len(calls') = Len(calls) + 1
  /\ calls'[Len(calls')].trig

\* C16: a timerFunc call adds exactly one flushCallbacks invocation to what
\* the host owes, and an empty timer exactly when the strategy is Promise
\* and the host is iOS; nothing else adds either; the host answers with one
\* flushCallbacks invocation; the empty timer, when it fires, runs no flush
\* and leaves the queue and the pending flag alone.
C16_OneFlushPerTrigger ==
  /\ [][TriggerStep =>
          /\ Outstanding' = Outstanding + 1
          /\ noops' = noops + (IF timerFunc = "promise" /\ host.isIOS THEN 1 ELSE 0)]_vars
  /\ [][~TriggerStep => Outstanding' <= Outstanding /\ noops' <= noops]_vars
  /\ [][flushNo' # flushNo =>
          flushNo' = flushNo + 1 /\ Outstanding' = Outstanding - 1]_vars
  /\ [][noops' < noops =>
          /\ noops' = noops - 1
          /\ UNCHANGED <<callbacks, pending, copies, i, phase, executed, futures,
                         reports, scheduled, moRecords, flushNo>>]_vars

\* On iOS with the Promise strategy, one trigger call has led to one flush
\* and to one empty timer, which has fired.
C16_Witness ==
  /\ timerFunc = "promise"
  /\ host.isIOS
  /\ Len(calls) = 1
  /\ flushNo = 1
  /\ phase = "idle"
  /\ noops = 0

\* ----------------------------------------------------------------- C17
TriggerCount == Cardinality({id \in Ids : calls[id].trig})

\* C17: with the MutationObserver strategy the counter is 0 or 1, it is 1
\* before the first trigger call and alternates 0, 1, 0, ... with the calls,
\* the text node holds it as a string, and every trigger call writes a value
\* other than the one the node held and queues a mutation record.
C17_CounterToggles ==
  /\ [](timerFunc = "mo" =>
          /\ counter \in {0, 1}
          /\ counter = (1 + TriggerCount) % 2
          /\ textData = (IF counter = 0 THEN "0" ELSE "1"))
  /\ [][(timerFunc = "mo" /\ TriggerStep) =>
          /\ textData' # textData
          /\ moRecords' = moRecords + 1]_vars

\* Three trigger calls have been made with the MutationObserver strategy.
C17_Witness ==
  /\ timerFunc = "mo"
  /\ TriggerCount = 3
  /\ textData = "0"

\* ----------------------------------------------------------------- C18
\* C18: a nextTick call returns a future exactly when it has no callback and
\* the host defines Promise at the time of the call, whatever strategy was
\* selected; with a callback it returns nothing, and the flush calls the
\* callback with the ctx of the call as this.
C18_FutureIffNoCallbackAndPromise ==
  /\ [][Len(calls') = Len(calls) + 1 =>
          LET id == Len(calls')
              c  == calls'[id]
          IN /\ c.ret = "promise" <=> (~c.cb /\ host.Promise # "undefined")
             /\ c.ret \in {"promise", Undefined}
             /\ futures'[id].st = (IF c.ret = "promise" THEN "pending" ELSE "none")]_vars
  /\ [][Len(executed') = Len(executed) + 1 =>
          LET e == executed'[Len(executed')]
          IN calls[e.id].cb => e.kind = "cb" /\ e.this = calls[e.id].ctx]_vars

\* A future has been returned and resolved under a strategy other than
\* Promise.
C18_Witness ==
  \E id \in Ids :
    /\ calls[id].ret = "promise"
    /\ timerFunc # "promise"
    /\ futures[id].st = "resolved"

\* ----------------------------------------------------------------- C19
\* C19: between operations, pending is true exactly when the live queue is
\* not empty, and exactly when one flush is scheduled and has not started;
\* never more than one is; right after the snapshot of a flush the live
\* queue is empty and pending is false.
C19_PendingIffQueuedIffScheduled ==
  /\ pending <=> callbacks # <<>>
  /\ pending <=> Outstanding = 1
  /\ Outstanding \in {0, 1}
  /\ (phase = "flush" /\ i = 1 /\ Batch(flushNo) = {}) =>
       callbacks = <<>> /\ ~pending /\ Outstanding = 0

\* A flush has just taken a snapshot of two tasks.
C19_Witness ==
  /\ phase = "flush"
  /\ i = 1
  /\ Len(copies) = 2
  /\ callbacks = <<>>
  /\ ~pending

\* ----------------------------------------------------------------- C20
InCall == phase \in {"callFromTurn", "callFromTask"}
\* Call id has been made without callback / its future has been resolved.
AwaitsFuture(id) == IF id \in Ids THEN ~calls[id].cb ELSE FALSE
IsResolved(id) == IF id \in Ids THEN futures[id].st = "resolved" ELSE FALSE

\* C20: while nextTick is between the push and the storing of the resolver
\* the task is in the live queue with pending set and no resolver, and the
\* only step taken from there is the rest of the call: no flush starts; a
\* task without callback that a flush executes has its resolver and
\* resolves its future; and on a fair host every future returned is
\* eventually resolved.
C20_ResolverSetBeforeFlush ==
  /\ [](InCall =>
          /\ pending
          /\ callbacks # <<>> /\ callbacks[Len(callbacks)] = Len(calls)
          /\ ~resolveOf[Len(calls)])
  /\ [][InCall => (~InCall' /\ flushNo' = flushNo /\ executed' = executed)]_vars
  /\ [](\A k \in DOMAIN executed :
          ~calls[executed[k].id].cb =>
            /\ executed[k].kind = "resolve"
            /\ resolveOf[executed[k].id]
            /\ futures[executed[k].id].st = "resolved")
  /\ \A id \in 1..MaxCalls :
       [](AwaitsFuture(id) => <>IsResolved(id))

\* A call without callback invoked the trigger itself, and its future has
\* been resolved by the flush.
C20_Witness ==
  \E id \in Ids :
    /\ ~calls[id].cb
    /\ calls[id].trig
    /\ calls[id].ret = "promise"
    /\ futures[id].st = "resolved"

====
